---------------------------- MODULE Spec2Model ----------------------------
(***************************************************************************)
(* A model of MettBot's IRC client core (src/ircclient/ircclient.go) and   *)
(* of its AdminPlugin (src/plugins/admincmds.go).                          *)
(*                                                                         *)
(* Go strings that the code inspects or builds character by character      *)
(* (nicknames, hostmasks, triggers, command verbs, message texts and       *)
(* outbound lines) are sequences of one-character strings.  Protocol       *)
(* command tokens (Event.Command) and plugin names, which are only ever    *)
(* compared as wholes, are TLA+ strings.                                   *)
(***************************************************************************)
EXTENDS Naturals, Sequences, FiniteSets

VARIABLES
    plugins,        \* ic.plugins: plugin name -> plugin instance
    handlers,       \* ic.handlers: command verb -> handler record
    lastCall,       \* the last registration call made and what it returned
    pc,             \* where the client's main task stands
    conf,           \* the "Server" section of the configuration plugin
    nick,           \* Connect's local variable nick
    Output,         \* the lines sent on ic.conn.Output, in order
    pending,        \* goroutines spawned by "go" that have not started yet
    done,           \* goroutines that have run
    nLines,         \* how many lines have been taken from ic.conn.Input
    usageCmd,       \* the command dispatchHandlers holds while in GetUsage
    pcD,            \* where a Disconnect call stands
    unregCount,     \* plugin name -> number of Unregister calls
    closed,         \* ic.conn.Quit() has been called
    crashed,        \* "no", or what panicked and ended the process
    failed,         \* goroutines whose plugin hook panicked
    n433,           \* how many 433 lines Connect has handled
    connectReturns, \* how many times Connect returned nil after a 001
    ranging         \* the range over ic.plugins dispatchHandlers is inside

vars == <<plugins, handlers, lastCall, pc, conf, nick, Output, pending, done,
          nLines, usageCmd, pcD, unregCount, closed, crashed, failed, n433,
          connectReturns, ranging>>

regVars == <<plugins, handlers, lastCall>>

sessionVars == <<pc, conf, nick, Output, pending, done, nLines, usageCmd, pcD,
                 unregCount, closed, crashed, failed, n433, connectReturns, ranging>>

(***************************************************************************)
(* Bounds of the model.                                                    *)
(***************************************************************************)
\* Inbound lines taken from ic.conn.Input in one session.
MaxLines == 2

\* A further line arrives only while at most this many spawned goroutines
\* have not started yet.
MaxPending == 1

\* The longest text, short of its padding, handed to SendLine.
MaxText == 3

\* Calls of SendLine by the library user in one session.
MaxSends == 1

(***************************************************************************)
(* Strings.                                                                *)
(***************************************************************************)
DeniedMsg == <<"Y","o","u"," ","a","r","e"," ","n","o","t"," ","a","u","t","h","o","r","i","z","e","d"," ","t","o"," ","d","o"," ","t","h","a","t",".">>

NoSuchCommand == <<"n","o"," ","s","u","c","h"," ","c","o","m","m","a","n","d">>

UsageInviteme == <<"i","n","v","i","t","e","m","e"," ","<","c","h","a","n","n","e","l","n","a","m","e",">">>

UsageSay == <<"s","a","y"," ","<","c","h","a","n","n","e","l","n","a","m","e",">"," ","<","m","e","s","s","a","g","e",">">>

UsageNotice == <<"n","o","t","i","c","e"," ","<","c","h","a","n","n","e","l","n","a","m","e",">"," ","<","m","e","s","s","a","g","e",">">>

UsageAction == <<"a","c","t","i","o","n"," ","<","c","h","a","n","n","e","l","n","a","m","e",">"," ","<","m","e","s","s","a","g","e",">">>

inviteme == <<"i","n","v","i","t","e","m","e">>

say == <<"s","a","y">>

notice == <<"n","o","t","i","c","e">>

action == <<"a","c","t","i","o","n">>

\* strings.Index(s, p) == 0
HasPrefix(s, p) == Len(p) <= Len(s) /\ SubSeq(s, 1, Len(p)) = p

\* The position of the first c in s, 0 when there is none.
RECURSIVE IndexFrom(_, _, _)
IndexFrom(s, c, i) ==
    IF i > Len(s) THEN 0
    ELSE IF s[i] = c THEN i
    ELSE IndexFrom(s, c, i + 1)

\* strings.Split(s, sep) for a one-character separator.
RECURSIVE Split(_, _)
Split(s, c) ==
    LET i == IndexFrom(s, c, 1)
    IN  IF i = 0 THEN <<s>>
        ELSE <<SubSeq(s, 1, i - 1)>> \o Split(SubSeq(s, i + 1, Len(s)), c)

\* strings.SplitN(s, sep, 2)[0]
SplitN2First(s, c) ==
    LET i == IndexFrom(s, c, 1)
    IN  IF i = 0 THEN s ELSE SubSeq(s, 1, i - 1)

\* strings.Join(words, " ")
RECURSIVE Join(_)
Join(words) ==
    IF words = <<>> THEN <<>>
    ELSE IF Len(words) = 1 THEN words[1]
    ELSE words[1] \o <<" ">> \o Join(Tail(words))

\* A map with key k bound to v.
MapPut(m, k, v) == [x \in DOMAIN m \cup {k} |-> IF x = k THEN v ELSE m[x]]

(***************************************************************************)
(* Plugins.  An instance is a record of its Go type and an identity, so    *)
(* that two instances of one type (hence with one name) can be told apart. *)
(***************************************************************************)
BasicProtocol == [type |-> "basicProtocol", id |-> 0]

ConfigPlugin == [type |-> "ConfigPlugin", id |-> 0]

AuthPlugin == [type |-> "authPlugin", id |-> 0]

Admin1 == [type |-> "AdminPlugin", id |-> 1]

Admin2 == [type |-> "AdminPlugin", id |-> 2]

Config2 == [type |-> "ConfigPlugin", id |-> 2]

\* Plugin.String()
PluginString(p) ==
    CASE p.type = "AdminPlugin" -> "admin"
      [] p.type = "ConfigPlugin" -> "conf"
      [] p.type = "authPlugin" -> "auth"
      [] OTHER -> "basic"

(***************************************************************************)
(* Registration.                                                           *)
(***************************************************************************)
\* The error values the registration calls return (nil, or errors.New(text)).
NoError == [msg |-> "nil", plugin |-> ""]

HandlerExistsError(owner) ==
    [msg |-> "Handler is already registered by plugin: ", plugin |-> PluginString(owner)]

PluginExistsError == [msg |-> "Plugin already exists", plugin |-> ""]

\* A mutation of RegisterCommandHandler: a duplicate verb is rebound.
RegisterCommandHandlerRebind(h, command, minparams, minaccess, plugin) ==
    [handlers |-> MapPut(h, command,
                         [Handler |-> plugin, Command |-> command,
                          Minparams |-> minparams, Minaccess |-> minaccess]),
     err |-> IF command \in DOMAIN h THEN HandlerExistsError(h[command].Handler)
             ELSE NoError]

\* IRCClient.RegisterCommandHandler: the handler table and the error returned.
RegisterCommandHandler(h, command, minparams, minaccess, plugin) ==
    IF command \in DOMAIN h
    THEN [handlers |-> h, err |-> HandlerExistsError(h[command].Handler)]
    ELSE [handlers |-> MapPut(h, command,
                              [Handler |-> plugin, Command |-> command,
                               Minparams |-> minparams, Minaccess |-> minaccess]),
          err |-> NoError]

\* AdminPlugin.Register: four handler registrations, their errors dropped.
AdminRegister(h, q) ==
    LET h1 == RegisterCommandHandler(h, inviteme, 1, 400, q).handlers
        h2 == RegisterCommandHandler(h1, say, 2, 500, q).handlers
        h3 == RegisterCommandHandler(h2, notice, 2, 500, q).handlers
    IN  RegisterCommandHandler(h3, action, 2, 500, q).handlers

\* Plugin.Register(ic), by the plugin's type.
PluginRegister(h, p) ==
    IF p.type = "AdminPlugin" THEN AdminRegister(h, p) ELSE h

\* A mutation of RegisterPlugin: the duplicate check is missing.
RegisterPluginOverwrite(pl, h, p) ==
    [plugins |-> MapPut(pl, PluginString(p), p),
     handlers |-> PluginRegister(h, p),
     err |-> IF PluginString(p) \in DOMAIN pl THEN PluginExistsError ELSE NoError]

\* IRCClient.RegisterPlugin: the plugin set, the handler table, the error.
RegisterPlugin(pl, h, p) ==
    IF PluginString(p) \in DOMAIN pl
    THEN [plugins |-> pl, handlers |-> h, err |-> PluginExistsError]
    ELSE [plugins |-> MapPut(pl, PluginString(p), p),
          handlers |-> PluginRegister(h, p),
          err |-> NoError]

EmptyMap == [x \in {} |-> {}]

\* NewIRCClient: three plugins registered into empty tables.
NewIRCClient ==
    LET r1 == RegisterPlugin(EmptyMap, EmptyMap, BasicProtocol)
        r2 == RegisterPlugin(r1.plugins, r1.handlers, ConfigPlugin)
    IN  RegisterPlugin(r2.plugins, r2.handlers, AuthPlugin)

(***************************************************************************)
(* The configuration and the authorization database.                       *)
(***************************************************************************)
ChannelC == <<"#","c">>

UserHost == <<"j","o","!","u","@","h">>

AdminHost == <<"o","p","!","u","@","h">>

\* The configuration file's "Server" section.
ConfigFile ==
    [nick |-> <<"b","o","t">>, ident |-> <<"m">>, realname |-> <<"M">>,
     trigger |-> <<"!">>]

\* IRCClient.GetStringOption("Server", option)
GetStringOption(c, option) == c[option]

\* IRCClient.SetStringOption("Server", option, value)
SetStringOption(c, option, value) == [c EXCEPT ![option] = value]

\* The authorization database: host patterns and their levels.
AccessEntries == {[HostPattern |-> AdminHost, Level |-> 500]}

\* IRCClient.GetAccessLevel: the highest level among the entries matching
\* host, 0 when none matches.
GetAccessLevel(host) ==
    LET levels == {e.Level : e \in {x \in AccessEntries : x.HostPattern = host}}
    IN  IF levels = {} THEN 0
        ELSE CHOOSE l \in levels : \A m \in levels : m <= l

(***************************************************************************)
(* Inbound lines and their parsing.  A raw line is its tokens: the prefix  *)
(* (empty when absent), the command token (empty on a malformed line),     *)
(* the middle parameters and the trailing parameter.                       *)
(***************************************************************************)
RawLine(prefix, command, params, trailing) ==
    [prefix |-> prefix, command |-> command, params |-> params,
     trailing |-> trailing]

ServerName == <<"s","r","v">>

Line433 == RawLine(ServerName, "433", <<<<"*">>, <<"b","o","t">>>>, <<<<"u","s","e","d">>>>)

Line001 == RawLine(ServerName, "001", <<<<"b","o","t">>>>, <<<<"h","i">>>>)

\* "!say #c hi": enough arguments for say.
TextSay == <<"!","s","a","y"," ","#","c"," ","h","i">>

\* "!say #c": one argument short.
TextSayShort == <<"!","s","a","y"," ","#","c">>

\* "!notice #c hi"
TextNotice == <<"!","n","o","t","i","c","e"," ","#","c"," ","h","i">>

LineUserSay == RawLine(UserHost, "PRIVMSG", <<ChannelC>>, <<TextSay>>)

LineAdminSay == RawLine(AdminHost, "PRIVMSG", <<ChannelC>>, <<TextSay>>)

LineAdminSayShort == RawLine(AdminHost, "PRIVMSG", <<ChannelC>>, <<TextSayShort>>)

LineUserNotice == RawLine(UserHost, "PRIVMSG", <<ChannelC>>, <<TextNotice>>)

\* The same command in a direct message to the nickname after one 433.
LineUserNoticeToBot1 == RawLine(UserHost, "PRIVMSG", <<<<"b","o","t","_">>>>, <<TextNotice>>)

\* "!foo #c hi": no handler is registered for foo.
TextUnknown == <<"!","f","o","o"," ","#","c"," ","h","i">>

\* "!notice #c": one argument short.
TextNoticeShort == <<"!","n","o","t","i","c","e"," ","#","c">>

\* "!": the trigger and nothing after it.
TextBareTrigger == <<"!">>

LineAdminUnknown == RawLine(AdminHost, "PRIVMSG", <<ChannelC>>, <<TextUnknown>>)

LineUserNoticeShort == RawLine(UserHost, "PRIVMSG", <<ChannelC>>, <<TextNoticeShort>>)

LineBareTrigger == RawLine(UserHost, "PRIVMSG", <<ChannelC>>, <<TextBareTrigger>>)

\* A line with a target and nothing else.
LineBarePrivmsg == RawLine(UserHost, "PRIVMSG", <<ChannelC>>, <<>>)

\* A line with no command token.
LineMalformed == RawLine(<<>>, "", <<>>, <<>>)

InboundLines ==
    {Line433, Line001, LineUserSay, LineAdminSay, LineAdminSayShort,
     LineUserNotice, LineBarePrivmsg, LineMalformed}

\* The lines of the sessions in which commands arrive in direct messages.
ReplyLines ==
    {Line433, Line001, LineUserNotice, LineUserNoticeToBot1}

\* The lines of the sessions that try the ends of the handler lookup.
VerbLines ==
    {Line001, LineAdminUnknown, LineUserNoticeShort, LineAdminSayShort,
     LineBareTrigger}

\* The lines of the sessions that are followed through a Disconnect.
QuitSessionLines == {Line001, LineUserSay, LineAdminSayShort}

\* A mutation of ParseServerLine: a line without a command token parses too.
ParseServerLineLenient(line) ==
    [ok |-> TRUE,
     Source |-> line.prefix,
     Command |-> line.command,
     Target |-> IF line.params = <<>> THEN <<>> ELSE line.params[1],
     Args |-> (IF line.params = <<>> THEN <<>> ELSE Tail(line.params))
              \o line.trailing]

\* ParseServerLine: the Event of a raw line; ok is FALSE for Go's nil.
ParseServerLine(line) ==
    IF line.command = ""
    THEN [ok |-> FALSE]
    ELSE [ok |-> TRUE,
          Source |-> line.prefix,
          Command |-> line.command,
          Target |-> IF line.params = <<>> THEN <<>> ELSE line.params[1],
          Args |-> (IF line.params = <<>> THEN <<>> ELSE Tail(line.params))
                   \o line.trailing]

\* ParseCommand: the command of an Event, its verb still carrying the
\* trigger (dispatchHandlers strips it); ok is FALSE for Go's nil.
ParseCommand(s) ==
    IF s.Command \notin {"PRIVMSG", "NOTICE"} \/ s.Args = <<>>
    THEN [ok |-> FALSE]
    ELSE LET words == Split(s.Args[1], " ")
         IN  [ok |-> TRUE, Source |-> s.Source, Target |-> s.Target,
              Command |-> words[1], Args |-> Tail(words)]

(***************************************************************************)
(* Outbound lines.                                                         *)
(***************************************************************************)
\* A mutation of ReplaceChar: nothing is replaced.
ReplaceCharNone(line, old) == line

\* strings.Replace(line, old, " ", -1) for a one-character old.
ReplaceChar(line, old) ==
    [i \in 1..Len(line) |-> IF line[i] = old THEN " " ELSE line[i]]

\* IRCClient.SendLine: the line it puts on ic.conn.Output.
SendLine(line) ==
    LET l1 == ReplaceChar(line, "\r")
        l2 == ReplaceChar(l1, "\n")
    IN  IF Len(l2) > 510 THEN SubSeq(l2, 1, 510) ELSE l2

NoticeLine(target, message) ==
    <<"N","O","T","I","C","E"," ">> \o target \o <<" ",":">> \o message

\* A mutation of Reply: the reply always goes to the command's Target.
ReplyToTarget(c, cmd, message) == SendLine(NoticeLine(cmd.Target, message))

\* IRCClient.Reply: the line it sends through SendLine.
Reply(c, cmd, message) ==
    LET target == IF cmd.Target # GetStringOption(c, "nick")
                  THEN cmd.Target
                  ELSE SplitN2First(cmd.Source, "!")
    IN  SendLine(NoticeLine(target, message))

NickLine(n) == <<"N","I","C","K"," ">> \o n

UserLine(c) ==
    <<"U","S","E","R"," ">> \o GetStringOption(c, "ident")
        \o <<" ","*"," ","Q"," ",":">> \o GetStringOption(c, "realname")

QuitLine(quitmsg) == <<"Q","U","I","T"," ",":">> \o quitmsg

IsNickLine(l) == HasPrefix(l, <<"N","I","C","K"," ">>)

IsQuitLine(l) == HasPrefix(l, <<"Q","U","I","T"," ",":">>)

(***************************************************************************)
(* The hooks of AdminPlugin; the plugins NewIRCClient registers are        *)
(* observers that send nothing.                                            *)
(***************************************************************************)
\* The byte \001 of a CTCP ACTION, as one character.
CtrlA == "^A"

\* AdminPlugin.Usage
AdminUsage(cmd) ==
    CASE cmd = inviteme -> UsageInviteme
      [] cmd = say -> UsageSay
      [] cmd = notice -> UsageNotice
      [] cmd = action -> UsageAction
      [] OTHER -> <<>>

\* Plugin.Usage(cmd), by the plugin's type.
PluginUsage(p, cmd) == IF p.type = "AdminPlugin" THEN AdminUsage(cmd) ELSE <<>>

\* AdminPlugin.ProcessLine: the lines it sends.
AdminProcessLine(msg) ==
    IF msg.Command # "JOIN" THEN <<>>
    ELSE IF GetAccessLevel(msg.Source) >= 200
    THEN <<SendLine(<<"M","O","D","E"," ">> \o msg.Target \o <<" ","+","o"," ">>
                    \o SplitN2First(msg.Source, "!"))>>
    ELSE <<>>

\* AdminPlugin.ProcessCommand: the lines it sends.
AdminProcessCommand(cmd) ==
    CASE cmd.Command = inviteme ->
           <<SendLine(<<"I","N","V","I","T","E"," ">> \o SplitN2First(cmd.Source, "!")
                      \o <<" ">> \o cmd.Args[1])>>
      [] cmd.Command = say ->
           <<SendLine(<<"P","R","I","V","M","S","G"," ">> \o cmd.Args[1] \o <<" ",":">>
                      \o Join(Tail(cmd.Args)))>>
      [] cmd.Command = notice ->
           <<SendLine(<<"N","O","T","I","C","E"," ">> \o cmd.Args[1] \o <<" ",":">>
                      \o Join(Tail(cmd.Args)))>>
      [] cmd.Command = action ->
           <<SendLine(<<"P","R","I","V","M","S","G"," ">> \o cmd.Args[1]
                      \o <<" ",":",CtrlA,"A","C","T","I","O","N"," ">>
                      \o Join(Tail(cmd.Args)) \o <<CtrlA>>)>>
      [] OTHER -> <<>>

\* ProcessLine and ProcessCommand of basicProtocol, ConfigPlugin and
\* authPlugin: the lines they send.
ObserverHook(arg) == <<>>

\* What a spawned goroutine sends when it runs its hook.
HookOutput(u) ==
    IF u.hook = "ProcessLine"
    THEN IF u.plugin.type = "AdminPlugin" THEN AdminProcessLine(u.msg)
         ELSE ObserverHook(u.msg)
    ELSE IF u.plugin.type = "AdminPlugin" THEN AdminProcessCommand(u.cmd)
         ELSE ObserverHook(u.cmd)

\* A goroutine started by a go statement: the hook it runs, on which plugin,
\* for the idx-th line read, with the *IRCMessage or the *IRCCommand it was
\* handed.
Unit(idx, p, hook, arg) ==
    IF hook = "ProcessLine"
    THEN [idx |-> idx, plugin |-> p, hook |-> hook, msg |-> arg]
    ELSE [idx |-> idx, plugin |-> p, hook |-> hook, cmd |-> arg]

UnitId(u) == [idx |-> u.idx, plugin |-> u.plugin, hook |-> u.hook]

\* for _, p := range ic.plugins { go p.ProcessLine(s) }
LineHandlers(pl, idx, s) ==
    {Unit(idx, pl[n], "ProcessLine", s) : n \in DOMAIN pl}

(***************************************************************************)
(* dispatchHandlers.                                                       *)
(***************************************************************************)
\* A mutation of AccessDenied: the access check is missing.
AccessDeniedNever(h, cmd) == FALSE

\* A mutation of AccessDenied: access is only checked for a command that has
\* its arguments.
AccessDeniedWhenComplete(h, cmd) ==
    /\ Len(cmd.Args) >= h.Minparams
    /\ h.Minaccess > 0
    /\ GetAccessLevel(cmd.Source) < h.Minaccess

\* handler.Minaccess > 0 && ic.GetAccessLevel(c.Source) < handler.Minaccess
AccessDenied(h, cmd) ==
    h.Minaccess > 0 /\ GetAccessLevel(cmd.Source) < h.Minaccess

\* A mutation of StripTrigger: every verb is read as say.
StripTriggerToSay(c, cmd) == [cmd EXCEPT !.Command = say]

\* c.Command = c.Command[len(trigger):]
StripTrigger(c, cmd) ==
    [cmd EXCEPT !.Command =
        SubSeq(cmd.Command, Len(GetStringOption(c, "trigger")) + 1, Len(cmd.Command))]

\* What dispatchHandlers does with one line, short of its effects:
\*   drop     the line does not parse;
\*   panic    s.Args[0] is read of an Event without arguments;
\*   observe  the line handlers are spawned and nothing else happens;
\*   denied, usage, invoke   the three ends of a command with a handler.
Dispatch(pl, h, c, in) ==
    LET s == ParseServerLine(in)
    IN  IF ~s.ok THEN [kind |-> "drop"]
        ELSE IF s.Command # "PRIVMSG" /\ s.Command # "NOTICE"
        THEN [kind |-> "observe", s |-> s]
        ELSE IF s.Args = <<>> THEN [kind |-> "panic", s |-> s]
        ELSE IF ~HasPrefix(s.Args[1], GetStringOption(c, "trigger"))
        THEN [kind |-> "observe", s |-> s]
        ELSE LET c0 == ParseCommand(s)
             IN  IF ~c0.ok \/ Len(c0.Command) = 0
                 THEN [kind |-> "observe", s |-> s]
                 ELSE LET cmd == StripTrigger(c, c0)
                      IN  IF cmd.Command \notin DOMAIN h
                          THEN [kind |-> "observe", s |-> s]
                          ELSE IF AccessDenied(h[cmd.Command], cmd)
                          THEN [kind |-> "denied", s |-> s, cmd |-> cmd]
                          ELSE IF Len(cmd.Args) < h[cmd.Command].Minparams
                          THEN [kind |-> "usage", s |-> s, cmd |-> cmd]
                          ELSE [kind |-> "invoke", s |-> s, cmd |-> cmd]

\* A mutation of GetUsage: the owner's Usage hook is not asked.
GetUsageNoSuchCommand(h, cmd) == NoSuchCommand

\* IRCClient.GetUsage
GetUsage(h, cmd) ==
    IF cmd \notin DOMAIN h THEN NoSuchCommand
    ELSE PluginUsage(h[cmd].Handler, cmd)

(***************************************************************************)
(* Connect.                                                                *)
(***************************************************************************)
\* A mutation of RegistrationSwitch: the case "001" is missing.
RegistrationSwitchNoWelcome(command) ==
    CASE command = "433" -> "retry"
      [] OTHER -> "continue"

\* switch s.Command in Connect's loop
RegistrationSwitch(command) ==
    CASE command = "433" -> "retry"
      [] command = "001" -> "done"
      [] OTHER -> "continue"

\* A mutation of ConnectStarts: a command with a handler is started as well.
ConnectStartsCommands(pl, h, c, idx, s) ==
    LineHandlers(pl, idx, s) \cup
        (IF /\ s.Command \in {"PRIVMSG", "NOTICE"}
            /\ ParseCommand(s).ok
            /\ StripTrigger(c, ParseCommand(s)).Command \in DOMAIN h
         THEN LET cmd == StripTrigger(c, ParseCommand(s))
              IN  {Unit(idx, h[cmd.Command].Handler, "ProcessCommand", cmd)}
         ELSE {})

\* The goroutines Connect's loop starts for the Event s of the idx-th line:
\* the line handlers and nothing else, whatever the handler table h and the
\* configuration c hold.
ConnectStarts(pl, h, c, idx, s) == LineHandlers(pl, idx, s)

\* A mutation of NextNick: no underscore is appended.
NextNickSame(n) == n

\* nick = nick + "_"
NextNick(n) == n \o <<"_">>

(***************************************************************************)
(* Disconnect.                                                             *)
(***************************************************************************)
\* A mutation of Shutdown: the auth plugin is passed over.
ShutdownSkipsAuth(pl, cnt) ==
    [n \in DOMAIN cnt |-> IF n \in DOMAIN pl /\ n # "auth" THEN cnt[n] + 1 ELSE cnt[n]]

\* IRCClient.Shutdown: Unregister is called on every plugin of ic.plugins.
Shutdown(pl, cnt) ==
    [n \in DOMAIN cnt |-> IF n \in DOMAIN pl THEN cnt[n] + 1 ELSE cnt[n]]

\* The quit messages handed to Disconnect: "bye", and a message of two lines.
QuitMessages == {<<"b","y","e">>, <<"a","\n","Q","U","I","T">>}

(***************************************************************************)
(* The state after construction and registration.                          *)
(***************************************************************************)
PluginNames == {"basic", "conf", "auth", "admin"}

\* dispatchHandlers is not inside its range over ic.plugins.
NoRange == [ok |-> FALSE]

InitSession ==
    /\ pc = "new"
    /\ conf = ConfigFile
    /\ nick = <<>>
    /\ Output = <<>>
    /\ pending = {}
    /\ done = {}
    /\ nLines = 0
    /\ usageCmd = [ok |-> FALSE]
    /\ pcD = "idle"
    /\ unregCount = [n \in PluginNames |-> 0]
    /\ closed = FALSE
    /\ crashed = "no"
    /\ failed = {}
    /\ n433 = 0
    /\ connectReturns = 0
    /\ ranging = NoRange

\* The client as NewIRCClient returns it.
InitReg ==
    /\ plugins = NewIRCClient.plugins
    /\ handlers = NewIRCClient.handlers
    /\ lastCall = [op |-> "NewIRCClient"]
    /\ InitSession

\* The client of a program that makes say a command open to everyone and
\* then registers the admin plugin.
Init ==
    LET r1 == RegisterCommandHandler(NewIRCClient.handlers, say, 2, 0, Admin1)
        r2 == RegisterPlugin(NewIRCClient.plugins, r1.handlers, Admin1)
    IN  /\ plugins = r2.plugins
        /\ handlers = r2.handlers
        /\ lastCall = [op |-> "RegisterPlugin", name |-> PluginString(Admin1),
                       plugin |-> Admin1, err |-> r2.err]
        /\ InitSession

\* The client of a program that, after that, binds the empty verb to the
\* admin plugin.
InitVerbs ==
    LET r1 == RegisterCommandHandler(NewIRCClient.handlers, say, 2, 0, Admin1)
        r2 == RegisterPlugin(NewIRCClient.plugins, r1.handlers, Admin1)
        r3 == RegisterCommandHandler(r2.handlers, <<>>, 0, 0, Admin1)
    IN  /\ plugins = r2.plugins
        /\ handlers = r3.handlers
        /\ lastCall = [op |-> "RegisterCommandHandler", command |-> <<>>,
                       minparams |-> 0, minaccess |-> 0, owner |-> Admin1,
                       err |-> r3.err]
        /\ InitSession

(***************************************************************************)
(* Registration calls.                                                     *)
(***************************************************************************)
RegisterPluginCall(p) ==
    /\ pc = "new"
    /\ LET r == RegisterPlugin(plugins, handlers, p)
       IN  /\ plugins' = r.plugins
           /\ handlers' = r.handlers
           /\ lastCall' = [op |-> "RegisterPlugin", name |-> PluginString(p),
                           plugin |-> p, err |-> r.err]
    /\ UNCHANGED sessionVars

RegisterCommandHandlerCall(command, minparams, minaccess, plugin) ==
    /\ pc = "new"
    /\ LET r == RegisterCommandHandler(handlers, command, minparams, minaccess, plugin)
       IN  /\ handlers' = r.handlers
           /\ lastCall' = [op |-> "RegisterCommandHandler", command |-> command,
                           minparams |-> minparams, minaccess |-> minaccess,
                           owner |-> plugin, err |-> r.err]
    /\ UNCHANGED plugins
    /\ UNCHANGED sessionVars

NextReg ==
    \/ \E p \in {Admin1, Admin2, Config2} : RegisterPluginCall(p)
    \/ \E command \in {say, inviteme}, minparams \in {1, 2}, minaccess \in {0, 500},
          plugin \in {Admin1, AuthPlugin} :
          RegisterCommandHandlerCall(command, minparams, minaccess, plugin)

SpecReg == InitReg /\ [][NextReg]_vars

(***************************************************************************)
(* The session: Connect, InputLoop, the goroutines and Disconnect.         *)
(***************************************************************************)
Running == crashed = "no"

\* A line can be taken from ic.conn.Input, in a session of up to max lines.
CanReceiveUpTo(max) ==
    /\ Running
    /\ ~closed
    /\ nLines < max
    /\ Cardinality(pending) <= MaxPending

CanReceive == CanReceiveUpTo(MaxLines)

\* Connect, up to its loop: the transport fails, or the process was
\* started for an online restart (len(os.Args) > 1) and does not register,
\* or NICK and USER are sent and the loop is entered.
Connect ==
    /\ pc = "new"
    /\ \/ /\ pc' = "failed"
          /\ UNCHANGED <<nick, Output>>
       \/ /\ pc' = "connected"
          /\ UNCHANGED <<nick, Output>>
       \/ /\ pc' = "registering"
          /\ Output' = Output \o <<NickLine(GetStringOption(conf, "nick")), UserLine(conf)>>
          /\ nick' = GetStringOption(conf, "nick")
    /\ UNCHANGED <<regVars, ranging, conf, pending, done, nLines, usageCmd, pcD, unregCount,
                   closed, crashed, failed, n433, connectReturns>>

\* One turn of Connect's loop on a received line, in a session of up to max
\* lines.
ConnectLineUpTo(line, max) ==
    /\ pc = "registering"
    /\ CanReceiveUpTo(max)
    /\ nLines' = nLines + 1
    /\ n433' = IF line.command = "433" THEN n433 + 1 ELSE n433
    /\ LET s == ParseServerLine(line)
       IN  IF ~s.ok
           THEN UNCHANGED <<pc, conf, nick, Output, pending, connectReturns>>
           ELSE /\ pending' = pending \cup
                                  ConnectStarts(plugins, handlers, conf, nLines + 1, s)
                /\ CASE RegistrationSwitch(s.Command) = "retry" ->
                          /\ nick' = NextNick(nick)
                          /\ conf' = SetStringOption(conf, "nick", nick')
                          /\ Output' = Append(Output, NickLine(nick'))
                          /\ UNCHANGED <<pc, connectReturns>>
                     [] RegistrationSwitch(s.Command) = "done" ->
                          /\ pc' = "connected"
                          /\ connectReturns' = connectReturns + 1
                          /\ UNCHANGED <<conf, nick, Output>>
                     [] OTHER ->
                          UNCHANGED <<pc, conf, nick, Output, connectReturns>>
    /\ UNCHANGED <<regVars, ranging, done, usageCmd, pcD, unregCount, closed, crashed, failed>>

ConnectLine(line) == ConnectLineUpTo(line, MaxLines)

\* ic.conn.Input is closed after conn.Quit: Connect or InputLoop returns the
\* error read from ic.conn.Err.
InputClosed ==
    /\ pc \in {"registering", "loop"}
    /\ Running
    /\ closed
    /\ pc' = "returned"
    /\ UNCHANGED <<regVars, ranging, conf, nick, Output, pending, done, nLines, usageCmd, pcD,
                   unregCount, closed, crashed, failed, n433, connectReturns>>

\* The library user calls InputLoop after Connect has returned nil.
InputLoop ==
    /\ pc = "connected"
    /\ Running
    /\ pc' = "loop"
    /\ UNCHANGED <<regVars, ranging, conf, nick, Output, pending, done, nLines, usageCmd, pcD,
                   unregCount, closed, crashed, failed, n433, connectReturns>>

\* One turn of InputLoop: dispatchHandlers(in), up to its return or to its
\* call of the handler owner's Usage hook.  A panic of dispatchHandlers,
\* which comes after its go statements, ends the process.
DispatchLineUpTo(line, max) ==
    /\ pc = "loop"
    /\ CanReceiveUpTo(max)
    /\ nLines' = nLines + 1
    /\ LET d == Dispatch(plugins, handlers, conf, line)
           spawned == IF d.kind = "drop" THEN {}
                      ELSE LineHandlers(plugins, nLines + 1, d.s)
       IN  /\ pending' = pending \cup spawned \cup
                              (IF d.kind = "invoke"
                               THEN {Unit(nLines + 1, handlers[d.cmd.Command].Handler,
                                          "ProcessCommand", d.cmd)}
                               ELSE {})
           /\ Output' = IF d.kind = "denied"
                        THEN Append(Output, Reply(conf, d.cmd, DeniedMsg))
                        ELSE Output
           /\ pc' = IF d.kind = "usage" THEN "usage" ELSE pc
           /\ usageCmd' = IF d.kind = "usage" THEN d.cmd ELSE usageCmd
           /\ crashed' = IF d.kind = "panic" THEN "reader" ELSE crashed
    /\ UNCHANGED <<regVars, ranging, conf, nick, done, pcD, unregCount, closed, failed, n433,
                   connectReturns>>

DispatchLine(line) == DispatchLineUpTo(line, MaxLines)

\* The Usage hook returns its text to GetUsage, dispatchHandlers replies with
\* it and returns to InputLoop.
UsageReturn ==
    /\ pc = "usage"
    /\ Running
    /\ Output' = Append(Output, Reply(conf, usageCmd, GetUsage(handlers, usageCmd.Command)))
    /\ pc' = "loop"
    /\ usageCmd' = [ok |-> FALSE]
    /\ UNCHANGED <<regVars, ranging, conf, nick, pending, done, nLines, pcD, unregCount, closed,
                   crashed, failed, n433, connectReturns>>

\* A spawned goroutine is scheduled and runs its hook to the end.
RunHandler(u) ==
    /\ Running
    /\ pending' = pending \ {u}
    /\ done' = done \cup {UnitId(u)}
    /\ Output' = Output \o HookOutput(u)
    /\ UNCHANGED <<regVars, ranging, pc, conf, nick, nLines, usageCmd, pcD, unregCount, closed,
                   crashed, failed, n433, connectReturns>>

\* A spawned goroutine is scheduled and the hook of a user's plugin panics:
\* no recover is deferred in the goroutine, so the Go runtime ends the
\* process and every other goroutine with it.
PanicHandler(u) ==
    /\ Running
    /\ u.plugin.type = "AdminPlugin"
    /\ pending' = {}
    /\ failed' = failed \cup {UnitId(u)}
    /\ crashed' = "plugin"
    /\ UNCHANGED <<regVars, ranging, pc, conf, nick, Output, done, nLines, usageCmd, pcD,
                   unregCount, closed, n433, connectReturns>>

\* Disconnect is called (by a plugin or the library user): ic.Shutdown().
DisconnectShutdown ==
    /\ pcD = "idle"
    /\ Running
    /\ pc \in {"registering", "connected", "loop", "usage"}
    /\ unregCount' = Shutdown(plugins, unregCount)
    /\ pcD' = "shutdown"
    /\ UNCHANGED <<regVars, ranging, pc, conf, nick, Output, pending, done, nLines, usageCmd,
                   closed, crashed, failed, n433, connectReturns>>

\* ic.conn.Output <- "QUIT :" + quitmsg
DisconnectQuit(quitmsg) ==
    /\ pcD = "shutdown"
    /\ Running
    /\ Output' = Append(Output, QuitLine(quitmsg))
    /\ pcD' = "quit"
    /\ UNCHANGED <<regVars, ranging, pc, conf, nick, pending, done, nLines, usageCmd, unregCount,
                   closed, crashed, failed, n433, connectReturns>>

\* ic.conn.Quit()
DisconnectClose ==
    /\ pcD = "quit"
    /\ Running
    /\ closed' = TRUE
    /\ pcD' = "closed"
    /\ UNCHANGED <<regVars, ranging, pc, conf, nick, Output, pending, done, nLines, usageCmd,
                   unregCount, crashed, failed, n433, connectReturns>>

\* dispatchHandlers takes a line, parses it and enters its range over
\* ic.plugins; a line that does not parse is dropped.
RangeBegin(line) ==
    /\ pc = "loop"
    /\ CanReceive
    /\ nLines' = nLines + 1
    /\ IF ParseServerLine(line).ok
       THEN /\ pc' = "ranging"
            /\ ranging' = [ok |-> TRUE, line |-> line, names |-> DOMAIN plugins,
                           written |-> FALSE]
       ELSE UNCHANGED <<pc, ranging>>
    /\ UNCHANGED <<regVars, conf, nick, Output, pending, done, usageCmd, pcD, unregCount,
                   closed, crashed, failed, n433, connectReturns>>

\* dispatchHandlers leaves its range over ic.plugins and runs to its end.
\* A range that a write of ic.plugins ran into has started the line handler
\* of the plugins it began with and of any of the plugins added since.
RangeEnd ==
    /\ pc = "ranging"
    /\ Running
    /\ \E names \in SUBSET (DOMAIN plugins) :
           /\ ranging.names \subseteq names
           /\ ~ranging.written => names = ranging.names
           /\ LET d == Dispatch(plugins, handlers, conf, ranging.line)
                  visited == [n \in names |-> plugins[n]]
              IN  /\ pending' = pending \cup LineHandlers(visited, nLines, d.s) \cup
                                     (IF d.kind = "invoke"
                                      THEN {Unit(nLines, handlers[d.cmd.Command].Handler,
                                                 "ProcessCommand", d.cmd)}
                                      ELSE {})
                  /\ Output' = IF d.kind = "denied"
                               THEN Append(Output, Reply(conf, d.cmd, DeniedMsg))
                               ELSE Output
                  /\ pc' = IF d.kind = "usage" THEN "usage" ELSE "loop"
                  /\ usageCmd' = IF d.kind = "usage" THEN d.cmd ELSE usageCmd
                  /\ crashed' = IF d.kind = "panic" THEN "reader" ELSE crashed
    /\ ranging' = NoRange
    /\ UNCHANGED <<regVars, conf, nick, done, nLines, pcD, unregCount, closed, failed,
                   n433, connectReturns>>

\* A goroutine other than the read loop's calls RegisterPlugin(p) after
\* Connect has been called.  No lock orders its accesses to ic.plugins and
\* ic.handlers with those of the read loop; when it writes ic.plugins inside
\* the read loop's range, the Go runtime may end the process (concurrent map
\* iteration and map write) or let both go on.
RegisterPluginAnyTime(p) ==
    /\ pc \in {"registering", "connected", "loop", "ranging"}
    /\ Running
    /\ LET r == RegisterPlugin(plugins, handlers, p)
           races == ranging.ok /\ r.err = NoError
       IN  /\ plugins' = r.plugins
           /\ handlers' = r.handlers
           /\ lastCall' = [op |-> "RegisterPlugin", name |-> PluginString(p),
                           plugin |-> p, err |-> r.err]
           /\ ranging' = IF races THEN [ranging EXCEPT !.written = TRUE] ELSE ranging
           /\ \/ UNCHANGED <<crashed, pending>>
              \/ /\ races
                 /\ crashed' = "maprace"
                 /\ pending' = {}
    /\ UNCHANGED <<pc, conf, nick, Output, done, nLines, usageCmd, pcD, unregCount,
                   closed, failed, n433, connectReturns>>

\* The library user calls ic.SendLine(line) once Connect has returned.
SendLineCall(line) ==
    /\ pc = "connected"
    /\ Running
    /\ Len(Output) < MaxSends
    /\ Output' = Append(Output, SendLine(line))
    /\ lastCall' = [op |-> "SendLine", line |-> line]
    /\ UNCHANGED <<plugins, handlers>>
    /\ UNCHANGED <<pc, conf, nick, pending, done, nLines, usageCmd, pcD, unregCount,
                   closed, crashed, failed, n433, connectReturns, ranging>>

\* A session up to any point short of Disconnect.
Next ==
    \/ Connect
    \/ \E line \in InboundLines : ConnectLine(line)
    \/ InputLoop
    \/ \E line \in InboundLines : DispatchLine(line)
    \/ UsageReturn
    \/ \E u \in pending : RunHandler(u)
    \/ \E u \in pending : PanicHandler(u)

Spec == Init /\ [][Next]_vars

\* A session in which Disconnect may be called at any point after Connect.
NextQuit ==
    \/ Connect
    \/ \E line \in QuitSessionLines : ConnectLine(line)
    \/ InputLoop
    \/ \E line \in QuitSessionLines : DispatchLine(line)
    \/ UsageReturn
    \/ \E u \in pending : RunHandler(u)
    \/ \E u \in pending : PanicHandler(u)
    \/ DisconnectShutdown
    \/ \E quitmsg \in QuitMessages : DisconnectQuit(quitmsg)
    \/ DisconnectClose
    \/ InputClosed

SpecQuit == Init /\ [][NextQuit]_vars

\* n characters that SendLine leaves alone.
Padding(n) == [i \in 1..n |-> "x"]

\* The texts handed to SendLine: every text of up to MaxText characters out
\* of a letter, a carriage return and a line feed, alone or after a padding
\* that brings it to the 510-byte limit.
SendInputs ==
    {Padding(n) \o t : n \in {0} \cup 508..510,
                       t \in UNION {[1..k -> {"a", "\r", "\n"}] : k \in 0..MaxText}}

\* Sessions of a restarted bot in which the library user sends lines.
NextSend ==
    \/ Connect
    \/ \E line \in SendInputs : SendLineCall(line)

SpecSend == Init /\ [][NextSend]_vars

\* Sessions of commands with unknown, unauthorized, incomplete and empty
\* verbs, in which no plugin hook panics.
NextVerbs ==
    \/ Connect
    \/ \E line \in VerbLines : ConnectLine(line)
    \/ InputLoop
    \/ \E line \in VerbLines : DispatchLine(line)
    \/ UsageReturn
    \/ \E u \in pending : RunHandler(u)

SpecVerbs == InitVerbs /\ [][NextVerbs]_vars

\* The lines of the sessions in which a plugin is registered late.
LateLines == {Line001, LineAdminSay, LineMalformed}

\* Sessions of a client that connects with the plugins of NewIRCClient and in
\* which the admin plugin is registered at some time after that.
NextLate ==
    \/ Connect
    \/ \E line \in LateLines : ConnectLine(line)
    \/ InputLoop
    \/ \E line \in LateLines : RangeBegin(line)
    \/ RangeEnd
    \/ \E p \in {Admin1, Admin2} : RegisterPluginAnyTime(p)
    \/ \E u \in pending : RunHandler(u)

SpecLate == InitReg /\ [][NextLate]_vars

\* Sessions long enough for a 433, the 001 and a command after them, in
\* which no plugin hook panics.
NextReply ==
    \/ Connect
    \/ \E line \in ReplyLines : ConnectLineUpTo(line, MaxLines + 1)
    \/ InputLoop
    \/ \E line \in ReplyLines : DispatchLineUpTo(line, MaxLines + 1)
    \/ \E u \in pending : RunHandler(u)

SpecReply == Init /\ [][NextReply]_vars

(***************************************************************************)
(* Properties.                                                             *)
(***************************************************************************)
HasSuffix(l, suffix) ==
    Len(suffix) <= Len(l) /\ SubSeq(l, Len(l) - Len(suffix) + 1, Len(l)) = suffix

\* An authorization-denied reply line.
IsDeniedReply(l) ==
    HasPrefix(l, <<"N","O","T","I","C","E"," ">>) /\ HasSuffix(l, DeniedMsg)

\* The line is a PRIVMSG or NOTICE whose first argument starts with the
\* trigger and whose verb has a registered handler.
Qualifying(line) ==
    LET s == ParseServerLine(line)
    IN  /\ s.ok
        /\ s.Command \in {"PRIVMSG", "NOTICE"}
        /\ s.Args # <<>>
        /\ HasPrefix(s.Args[1], GetStringOption(conf, "trigger"))
        /\ ParseCommand(s).ok
        /\ StripTrigger(conf, ParseCommand(s)).Command \in DOMAIN handlers

CommandOf(line) == StripTrigger(conf, ParseCommand(ParseServerLine(line)))

\* The sender of cmd is below the access level its handler asks for.
BelowMinAccess(cmd) ==
    /\ cmd.Command \in DOMAIN handlers
    /\ handlers[cmd.Command].Minaccess > 0
    /\ GetAccessLevel(cmd.Source) < handlers[cmd.Command].Minaccess

CommandHandlers(units) == {u \in units : u.hook = "ProcessCommand"}

C1_DispatchStep ==
    \A line \in InboundLines :
        (DispatchLine(line) /\ Qualifying(line)) =>
            LET cmd == CommandOf(line)
                h == handlers[cmd.Command]
            IN  /\ (h.Minaccess = 0 /\ Len(cmd.Args) >= h.Minparams) =>
                       /\ Unit(nLines + 1, h.Handler, "ProcessCommand", cmd) \in pending'
                       /\ Output' = Output
                /\ BelowMinAccess(cmd) =>
                       /\ CommandHandlers(pending') = CommandHandlers(pending)
                       /\ Len(Output') = Len(Output) + 1
                       /\ SubSeq(Output', 1, Len(Output)) = Output
                       /\ IsDeniedReply(Output'[Len(Output')])
                       /\ pc' = "loop"

\* C1: a qualifying command line whose handler has MinAccess 0 gets its
\* ProcessCommand goroutine spawned whatever the sender's access level (given
\* enough arguments); one whose sender is below a positive MinAccess spawns no
\* ProcessCommand, then or later, and puts exactly one authorization-denied
\* reply on the outbound queue.
C1_AccessGate ==
    /\ [][C1_DispatchStep]_vars
    /\ [](\A u \in CommandHandlers(pending) : ~BelowMinAccess(u.cmd))

\* C1 witness: a sender without access has been denied notice and has had
\* the open command say accepted.
C1_Witness ==
    /\ \E i \in 1..Len(Output) : IsDeniedReply(Output[i])
    /\ \E u \in CommandHandlers(pending) :
           u.cmd.Source = UserHost /\ u.cmd.Command = say

C2_RegistrationStep ==
    /\ \A v \in DOMAIN handlers : v \in DOMAIN handlers' /\ handlers'[v] = handlers[v]
    /\ (lastCall' # lastCall /\ lastCall'.op = "RegisterCommandHandler"
            /\ lastCall'.command \in DOMAIN handlers) =>
           (lastCall'.err # NoError /\ handlers' = handlers)

\* C2: RegisterCommandHandler for a verb that already has a handler returns an
\* error and leaves the handler table unchanged; over any sequence of
\* registration calls a verb, once bound, keeps its first owner, MinParams and
\* MinAccess.
C2_FirstHandlerStays == [][C2_RegistrationStep]_vars

\* C2 witness: say was bound by a direct call with MinAccess 0, and a later
\* RegisterCommandHandler for say with MinAccess 500 returned the error.
C2_Witness ==
    /\ lastCall.op = "RegisterCommandHandler"
    /\ lastCall.command = say
    /\ lastCall.minaccess = 500
    /\ lastCall.err = HandlerExistsError(AuthPlugin)
    /\ handlers[say].Minaccess = 0

C3_RegistrationStep ==
    /\ \A n \in DOMAIN plugins : n \in DOMAIN plugins' /\ plugins'[n] = plugins[n]
    /\ (lastCall' # lastCall /\ lastCall'.op = "RegisterPlugin"
            /\ lastCall'.name \in DOMAIN plugins) =>
           (lastCall'.err = PluginExistsError /\ plugins' = plugins)

\* C3: RegisterPlugin with a plugin whose name is already registered returns
\* the duplicate error and leaves the plugin set unchanged; over any sequence
\* of registrations a name keeps the instance first registered under it.
C3_FirstPluginStays == [][C3_RegistrationStep]_vars

\* C3 witness: a second AdminPlugin instance was refused while the first one
\* is registered.
C3_Witness ==
    /\ lastCall.op = "RegisterPlugin"
    /\ lastCall.plugin = Admin2
    /\ lastCall.err = PluginExistsError
    /\ "admin" \in DOMAIN plugins
    /\ plugins["admin"] = Admin1

RECURSIVE Underscores(_)
Underscores(k) == IF k = 0 THEN <<>> ELSE Underscores(k - 1) \o <<"_">>

NickLines(out) == SelectSeq(out, IsNickLine)

C4_State ==
    pc = "registering" =>
        /\ nick = ConfigFile.nick \o Underscores(n433)
        /\ GetStringOption(conf, "nick") = nick
        /\ NickLines(Output) =
               [k \in 1..(n433 + 1) |-> NickLine(ConfigFile.nick \o Underscores(k - 1))]

C4_Step ==
    (pc = "registering" /\ n433' = n433 + 1) =>
        /\ pc' = "registering"
        /\ nick' = nick \o <<"_">>
        /\ GetStringOption(conf', "nick") = nick'
        /\ Output' = Append(Output, NickLine(nick'))

\* C4: in Connect's loop every 433 appends exactly one underscore to the
\* nickname, stores it as Server/nick, sends exactly one NICK line with it and
\* stays in the loop; after k lines 433 the nickname is the configured one
\* followed by k underscores and k retry NICK lines have been sent.
C4_NickRetry == []C4_State /\ [][C4_Step]_vars

\* C4 witness: two 433 lines have been answered.
C4_Witness ==
    /\ pc = "registering"
    /\ n433 = 2
    /\ nick = <<"b","o","t","_","_">>
    /\ Len(NickLines(Output)) = 3

C5_Step ==
    /\ (pc = "registering" /\ ConnectLine(Line001)) =>
           (pc' = "connected" /\ connectReturns' = 1)
    /\ pc \notin {"new", "registering"} =>
           /\ pc' \notin {"new", "registering"}
           /\ connectReturns' = connectReturns
           /\ nick' = nick
           /\ GetStringOption(conf', "nick") = GetStringOption(conf, "nick")
           /\ NickLines(Output') = NickLines(Output)

\* C5: the first 001 received in Connect's loop makes Connect return nil, and
\* it does so once; from then on no step takes a line in Connect's loop,
\* changes the nickname, sends a NICK line or goes back to registering,
\* whatever lines (433 and 001 among them) InputLoop receives.
C5_RegisteredOnce == [](connectReturns <= 1) /\ [][C5_Step]_vars

\* C5 witness: after the 001, InputLoop has dispatched a 433.
C5_Witness ==
    /\ connectReturns = 1
    /\ pc = "loop"
    /\ \E u \in pending : u.idx = 2 /\ u.hook = "ProcessLine" /\ u.msg.Command = "433"

HasQuitLine == \E i \in 1..Len(Output) : IsQuitLine(Output[i])

AllUnregisteredOnce == \A n \in DOMAIN plugins : unregCount[n] = 1

\* C6: a Disconnect calls Unregister on every registered plugin exactly once
\* before the QUIT line is put on the outbound queue, and the QUIT line is on
\* the queue before the transport is asked to close.
C6_DisconnectOrder ==
    /\ pcD = "idle" =>
           (\A n \in DOMAIN plugins : unregCount[n] = 0) /\ ~HasQuitLine /\ ~closed
    /\ pcD = "shutdown" => AllUnregisteredOnce /\ ~HasQuitLine /\ ~closed
    /\ pcD = "quit" => AllUnregisteredOnce /\ HasQuitLine /\ ~closed
    /\ pcD = "closed" => AllUnregisteredOnce /\ HasQuitLine /\ closed
    /\ Len(SelectSeq(Output, IsQuitLine)) <= 1

\* C6 witness: a Disconnect has run to its end while a session was going on.
C6_Witness == pcD = "closed" /\ closed /\ nLines > 0

\* C7: whenever a ProcessCommand goroutine has started, the ProcessLine
\* goroutine of every registered plugin for the same line has started.
C7_LineHandlersBeforeCommand ==
    \A u \in done \cup failed :
        u.hook = "ProcessCommand" =>
            \A n \in DOMAIN plugins :
                [idx |-> u.idx, plugin |-> plugins[n], hook |-> "ProcessLine"]
                    \in done \cup failed

\* C8: for one plugin, the ProcessLine goroutine of an earlier line has
\* started whenever that of a later line has.
C8_LineOrderPerPlugin ==
    \A u \in pending, v \in done \cup failed :
        (u.hook = "ProcessLine" /\ v.hook = "ProcessLine" /\ u.plugin = v.plugin) =>
            ~(u.idx < v.idx)

\* C9: the task that runs InputLoop is never inside a plugin hook, so that no
\* hook that blocks can keep it from the next line.
C9_ReadLoopNeverInsideHook == pc # "usage"

\* C10: the panic of a plugin's ProcessLine or ProcessCommand goroutine leaves
\* the process running, so that the other goroutines and the read loop go on.
C10_HandlerFailureIsolated == failed # {} => Running

\* A reply line that carries the usage string the owner of cmd's verb gives.
IsUsageReply(l, cmd) ==
    /\ HasPrefix(l, <<"N","O","T","I","C","E"," ">>)
    /\ HasSuffix(l, <<" ",":">> \o PluginUsage(handlers[cmd.Command].Handler, cmd.Command))

C11_DispatchStep ==
    \A line \in InboundLines :
        (DispatchLine(line) /\ Qualifying(line) /\ ~BelowMinAccess(CommandOf(line))) =>
            LET cmd == CommandOf(line)
                h == handlers[cmd.Command]
            IN  IF Len(cmd.Args) < h.Minparams
                THEN /\ CommandHandlers(pending') = CommandHandlers(pending)
                     /\ Output' = Output
                     /\ pc' = "usage"
                     /\ usageCmd' = cmd
                ELSE /\ Unit(nLines + 1, h.Handler, "ProcessCommand", cmd) \notin pending
                     /\ CommandHandlers(pending') =
                            CommandHandlers(pending)
                                \cup {Unit(nLines + 1, h.Handler, "ProcessCommand", cmd)}
                     /\ Output' = Output
                     /\ pc' = "loop"

C11_ReplyStep ==
    (pc = "usage" /\ pc' # "usage") =>
        /\ pc' = "loop"
        /\ Len(Output') = Len(Output) + 1
        /\ SubSeq(Output', 1, Len(Output)) = Output
        /\ IsUsageReply(Output'[Len(Output')], usageCmd)
        /\ CommandHandlers(pending') = CommandHandlers(pending)

\* C11: a qualifying command whose sender passes the access check and whose
\* arguments are fewer than the handler's MinParams starts no ProcessCommand
\* and is answered with exactly one reply line, which carries the usage
\* string of the handler's owner for the verb; with at least MinParams
\* arguments exactly one ProcessCommand goroutine is started and the
\* dispatcher sends no reply.
C11_ParamGate ==
    /\ [][C11_DispatchStep /\ C11_ReplyStep]_vars
    /\ [](pc = "usage" =>
              /\ usageCmd.ok
              /\ usageCmd.Command \in DOMAIN handlers
              /\ Len(usageCmd.Args) < handlers[usageCmd.Command].Minparams
              /\ ~BelowMinAccess(usageCmd))

\* C11 witness: the operator's say with one argument has been answered with
\* the usage string of say, and the operator's say with two arguments has had
\* its ProcessCommand started.
C11_Witness ==
    /\ pc = "loop"
    /\ \E i \in 1..Len(Output) :
           Output[i] = NoticeLine(ChannelC, UsageSay)
    /\ \E u \in CommandHandlers(pending) :
           u.cmd.Source = AdminHost /\ u.cmd.Command = say /\ Len(u.cmd.Args) = 2

IsLineBreak(ch) == ch = "\r" \/ ch = "\n"

NoLineBreak(l) == \A i \in 1..Len(l) : ~IsLineBreak(l[i])

\* The first 510 bytes of l.
First510(l) == IF Len(l) > 510 THEN SubSeq(l, 1, 510) ELSE l

NotLineBreak(ch) == ~IsLineBreak(ch)

IsNoticeLine(l) == HasPrefix(l, <<"N","O","T","I","C","E"," ">>)

\* Every registered plugin has a ProcessLine goroutine among units for the
\* idx-th line, holding the Event of line.
NotifiedToAll(units, idx, line) ==
    \A n \in DOMAIN plugins :
        \E u \in units :
            /\ u.hook = "ProcessLine"
            /\ u.plugin = plugins[n]
            /\ u.idx = idx
            /\ u.msg.Command = line.command
            /\ u.msg.Source = line.prefix
            /\ u.msg.Args = (IF line.params = <<>> THEN <<>> ELSE Tail(line.params))
                                \o line.trailing

C13_Step ==
    \A line \in InboundLines :
        (pc = "registering" /\ ConnectLine(line)) =>
            /\ CommandHandlers(pending') = CommandHandlers(pending)
            /\ line.command # "" => NotifiedToAll(pending' \ pending, nLines + 1, line)
            /\ pc' \in {"registering", "connected"}
            /\ \/ Output' = Output
               \/ /\ line.command = "433"
                  /\ Len(Output') = Len(Output) + 1
                  /\ SubSeq(Output', 1, Len(Output)) = Output
                  /\ IsNickLine(Output'[Len(Output')])

\* C13: in Connect's loop every received line that parses is handed to the
\* ProcessLine of every registered plugin; no ProcessCommand is started and no
\* reply is sent for it, not even for a PRIVMSG that starts with the trigger
\* and names a registered verb.
C13_NoCommandsWhileRegistering ==
    /\ [][C13_Step]_vars
    /\ [](pc = "registering" =>
              /\ CommandHandlers(pending) = {}
              /\ \A u \in done \cup failed : u.hook = "ProcessLine"
              /\ \A i \in 1..Len(Output) : ~IsNoticeLine(Output[i]))

\* C13 witness: Connect's loop has taken a say of the operator with both
\* arguments and a notice of a user without access, and is still registering.
C13_Witness ==
    /\ pc = "registering"
    /\ nLines = 2
    /\ \E u \in pending : u.hook = "ProcessLine" /\ u.msg.Source = AdminHost
                             /\ u.msg.Args = <<TextSay>>
    /\ \E u \in pending \cup done : u.hook = "ProcessLine" /\ u.idx = 1

\* The nickname in effect: the configured one and an underscore for every
\* 433 answered.
CurrentNick == ConfigFile.nick \o Underscores(n433)

\* t is the text of hostmask before its first "!".
IsNickPart(t, hostmask) ==
    /\ HasPrefix(hostmask, t \o <<"!">>)
    /\ \A i \in 1..Len(t) : t[i] # "!"

\* l is the NOTICE line of message to the place a reply to cmd belongs: the
\* Target of cmd when it is not the current nickname, the nick part of its
\* Source when it is.
IsReplyTo(l, cmd, message) ==
    \E target \in {cmd.Target} \cup {SubSeq(cmd.Source, 1, k) : k \in 0..Len(cmd.Source)} :
        /\ l = <<"N","O","T","I","C","E"," ">> \o target \o <<" ",":">> \o message
        /\ IF cmd.Target # CurrentNick
           THEN target = cmd.Target
           ELSE IsNickPart(target, cmd.Source)

C14_ReplyStep ==
    \A line \in ReplyLines :
        (DispatchLineUpTo(line, MaxLines + 1) /\ Qualifying(line)
             /\ BelowMinAccess(CommandOf(line))) =>
            /\ Len(Output') = Len(Output) + 1
            /\ SubSeq(Output', 1, Len(Output)) = Output
            /\ IsReplyTo(Output'[Len(Output')], CommandOf(line), DeniedMsg)

TriggerPrefixed(line) ==
    /\ line.command \in {"PRIVMSG", "NOTICE"}
    /\ line.trailing # <<>>
    /\ HasPrefix(line.trailing[1], ConfigFile.trigger)

\* The first word of the text of a trigger-prefixed line, without the trigger.
VerbOfLine(line) ==
    LET word == Split(line.trailing[1], " ")[1]
    IN  SubSeq(word, Len(ConfigFile.trigger) + 1, Len(word))

\* The goroutines among units that belong to the idx-th line.
UnitsOfLine(units, idx) == {u \in units : u.idx = idx}

C15_Step ==
    \A line \in VerbLines :
        (DispatchLine(line) /\ TriggerPrefixed(line)
             /\ VerbOfLine(line) \notin DOMAIN handlers) =>
            /\ CommandHandlers(pending') = CommandHandlers(pending)
            /\ Output' = Output
            /\ pc' = "loop"
            /\ usageCmd' = usageCmd
            /\ NotifiedToAll(pending' \ pending, nLines + 1, line)
            /\ Cardinality(pending' \ pending) = Cardinality(DOMAIN plugins)

\* C15: a PRIVMSG or NOTICE that starts with the trigger and whose verb has
\* no registered handler starts no ProcessCommand on any plugin and puts no
\* line on the outbound queue; it is handed to the ProcessLine of every
\* plugin and has no other effect.
C15_UnknownVerbSilent ==
    /\ [][C15_Step]_vars
    /\ [](\A u \in CommandHandlers(pending) : u.cmd.Command \in DOMAIN handlers)

\* C15 witness: InputLoop has dispatched "!foo #c hi" of the operator as its
\* first line, and nothing is on the outbound queue.
C15_Witness ==
    /\ pc = "loop"
    /\ Output = <<>>
    /\ \E u \in pending : u.hook = "ProcessLine" /\ u.msg.Args = <<TextUnknown>>
                             /\ u.msg.Source = AdminHost

\* C16: RegisterPlugin can be called at any time: no call of it writes
\* ic.plugins while dispatchHandlers is inside its range over ic.plugins,
\* unordered with it.
C16_NoWriteInsideRange == ~(ranging.ok /\ ranging.written)

C17_Step ==
    \A line \in VerbLines :
        (DispatchLine(line) /\ Qualifying(line) /\ BelowMinAccess(CommandOf(line))
             /\ Len(CommandOf(line).Args) < handlers[CommandOf(line).Command].Minparams) =>
            /\ Len(Output') = Len(Output) + 1
            /\ SubSeq(Output', 1, Len(Output)) = Output
            /\ IsDeniedReply(Output'[Len(Output')])
            /\ ~IsUsageReply(Output'[Len(Output')], CommandOf(line))
            /\ pc' = "loop"
            /\ usageCmd' = usageCmd
            /\ CommandHandlers(pending') = CommandHandlers(pending)

\* C17: the access check comes before the argument count: a command whose
\* sender is below the handler's positive MinAccess and whose arguments are
\* fewer than MinParams is answered with exactly one reply, the
\* authorization-denied notice and not the usage string, and the owner's
\* Usage hook is not called for it.
C17_AccessBeforeParams ==
    /\ [][C17_Step]_vars
    /\ [](pc = "usage" => ~BelowMinAccess(usageCmd))

\* C17 witness: "!notice #c" of a user without access was the first line
\* InputLoop dispatched; the one line on the outbound queue is the denial.
C17_Witness ==
    /\ pc = "loop"
    /\ nLines = 1
    /\ \E u \in pending : u.hook = "ProcessLine" /\ u.msg.Args = <<TextNoticeShort>>
                             /\ u.msg.Source = UserHost
    /\ Len(Output) = 1
    /\ IsDeniedReply(Output[1])

C18_Step ==
    \A line \in VerbLines :
        (DispatchLine(line) /\ TriggerPrefixed(line) /\ VerbOfLine(line) = <<>>) =>
            /\ CommandHandlers(pending') = CommandHandlers(pending)
            /\ Output' = Output
            /\ pc' = "loop"

C19_OutboundLinesClean ==
    \A i \in 1..Len(Output) : NoLineBreak(Output[i]) /\ Len(Output[i]) <= 510

LineHandlersIn(units) == {u \in units : u.hook = "ProcessLine"}

C20_Step ==
    /\ \A line \in InboundLines :
           (ConnectLine(line) \/ DispatchLine(line)) =>
               IF line.command = ""
               THEN <<plugins, handlers, pc, conf, nick, Output, pending, done, usageCmd,
                      crashed, failed, connectReturns>>' =
                    <<plugins, handlers, pc, conf, nick, Output, pending, done, usageCmd,
                      crashed, failed, connectReturns>>
               ELSE /\ NotifiedToAll(pending' \ pending, nLines + 1, line)
                    /\ Cardinality(LineHandlersIn(pending' \ pending)) =
                           Cardinality(DOMAIN plugins)
    /\ \A u \in pending' \ pending : nLines' = nLines + 1 /\ u.idx = nLines'
    /\ \A u \in pending : u.idx <= nLines

\* C20: over Connect and the InputLoop that follows it, every received line
\* that parses has one ProcessLine goroutine started for each registered
\* plugin, by the loop that took it and by no later step, the 001 line being
\* taken by Connect and the line after it by InputLoop; a line that does not
\* parse starts none and changes nothing.
C20_NotifiedOnce == [][C20_Step]_vars

\* C20 witness: Connect has returned on the 001 and InputLoop has taken the
\* line after it; the ProcessLine of every plugin has been started for both.
C20_Witness ==
    /\ connectReturns = 1
    /\ pc = "loop"
    /\ nLines = 2
    /\ \A n \in DOMAIN plugins, i \in 1..2 :
           [idx |-> i, plugin |-> plugins[n], hook |-> "ProcessLine"]
               \in done \cup {UnitId(u) : u \in pending}

====
